---- MODULE Spec2Model ----
(***************************************************************************)
(* Primal-dual splitting solvers of pycsou (src/src/pycsou/opt/solver/     *)
(* pds.py): PrimalDualSplitting and its three specialisations, as a state  *)
(* machine over one solver instance: construction, m_init, m_step.         *)
(*                                                                         *)
(* Numbers.  A Python float is modelled by the exact rational it denotes,  *)
(* a record [k |-> "num", n, d] in lowest terms with d > 0.  +, -, * and / *)
(* are exact in the base solver.  math.sqrt is the one operation of the    *)
(* module whose exact result need not be rational: it is rounded to the    *)
(* nearest value with SqrtBits significant bits, as IEEE-754 rounds it to  *)
(* 53; the quotient 1.0 / tau of DouglasRachfordSplitting.m_init, which a  *)
(* product is claimed to undo, is rounded the same way.  None, +inf and    *)
(* a missing dictionary key are values of the same record shape, so that   *)
(* any two values can be compared.  Arrays are modelled with one           *)
(* coordinate (N = M = 1); shapes are kept for the constructor's check.    *)
(***************************************************************************)
EXTENDS Integers, Sequences, FiniteSets, TLC

VARIABLES solver, ctor, mstate, call, exc, nsteps, stop, zref, reinit

vars == <<solver, ctor, mstate, call, exc, nsteps, stop, zref, reinit>>

\* reinit records the history of the last call: TRUE when it was an m_init
\* on a state that an earlier call had already written

(* ------------------------------ bounds -------------------------------- *)

\* m_step calls modelled after an m_init call that wrote the iterates
MaxSteps == 2

\* significant bits kept by the rounded square root and the rounded quotient
SqrtBits == 6

(* ------------------------------ numbers ------------------------------- *)

Abs(i) == IF i < 0 THEN -i ELSE i

RECURSIVE GCD(_, _)
GCD(a, b) == IF b = 0 THEN a ELSE GCD(b, a % b)

RECURSIVE Pow2(_)
Pow2(e) == IF e = 0 THEN 1 ELSE 2 * Pow2(e - 1)

\* the rational n/d (d # 0) in lowest terms
Q(n, d) ==
    LET g == GCD(Abs(n), Abs(d))
        s == IF d < 0 THEN -1 ELSE 1
    IN  [k |-> "num", n |-> (s * n) \div g, d |-> (s * d) \div g]

I(n) == Q(n, 1)

None == [k |-> "None", n |-> 0, d |-> 1]
Inf == [k |-> "inf", n |-> 1, d |-> 0]
Missing == [k |-> "missing", n |-> 0, d |-> 1]

IsNum(a) == a.k = "num"

QAdd(a, b) ==
    LET g == GCD(a.d, b.d)
    IN  Q(a.n * (b.d \div g) + b.n * (a.d \div g), (a.d \div g) * b.d)

QNeg(a) == [a EXCEPT !.n = -a.n]
QSub(a, b) == QAdd(a, QNeg(b))

QMul(a, b) ==
    LET g1 == GCD(Abs(a.n), b.d)
        g2 == GCD(Abs(b.n), a.d)
    IN  Q((a.n \div g1) * (b.n \div g2), (a.d \div g2) * (b.d \div g1))

QDiv(a, b) == QMul(a, Q(b.d, b.n))
QLt(a, b) == a.n * b.d < b.n * a.d
QLe(a, b) == a.n * b.d <= b.n * a.d
QPos(a) == a.n > 0

\* floor of the square root of a natural number
ISqrt(v) == CHOOSE r \in 0..v : r * r <= v /\ (r + 1) * (r + 1) > v

IsSquare(v) == ISqrt(v) * ISqrt(v) = v

\* m * 2^e as a rational
Scaled(m, e) == IF e >= 0 THEN I(m * Pow2(e)) ELSE Q(m, Pow2(-e))

\* (m * 2^e)^2 <= q  and  (m * 2^e)^2 < q
SqLe(m, e, q) ==
    IF e >= 0 THEN m * m * Pow2(2 * e) * q.d <= q.n
    ELSE m * m * q.d <= q.n * Pow2(-2 * e)
SqLt(m, e, q) ==
    IF e >= 0 THEN m * m * Pow2(2 * e) * q.d < q.n
    ELSE m * m * q.d < q.n * Pow2(-2 * e)

\* the binary exponent e with 2^(SqrtBits-1) <= sqrt(q) / 2^e < 2^SqrtBits
RECURSIVE SqrtExp(_, _)
SqrtExp(q, e) ==
    IF SqLe(Pow2(SqrtBits), e, q) THEN SqrtExp(q, e + 1)
    ELSE IF ~SqLe(Pow2(SqrtBits - 1), e, q) THEN SqrtExp(q, e - 1)
    ELSE e

\* math.sqrt: exact when the root is rational, else rounded to nearest
math_sqrt(q) ==
    IF q.n = 0 THEN I(0)
    ELSE IF IsSquare(q.n) /\ IsSquare(q.d) THEN Q(ISqrt(q.n), ISqrt(q.d))
    ELSE LET e == SqrtExp(q, 0)
             m == CHOOSE c \in Pow2(SqrtBits - 1)..(Pow2(SqrtBits) - 1) :
                      SqLe(c, e, q) /\ ~SqLe(c + 1, e, q)
         IN  IF SqLt(2 * m + 1, e - 1, q) THEN Scaled(m + 1, e)
             ELSE Scaled(m, e)

\* m * 2^e <= |q|
RLe(m, e, q) ==
    IF e >= 0 THEN m * Pow2(e) * q.d <= Abs(q.n)
    ELSE m * q.d <= Abs(q.n) * Pow2(-e)

\* the binary exponent e with 2^(SqrtBits-1) <= |q| / 2^e < 2^SqrtBits
RECURSIVE RoundExp(_, _)
RoundExp(q, e) ==
    IF RLe(Pow2(SqrtBits), e, q) THEN RoundExp(q, e + 1)
    ELSE IF ~RLe(Pow2(SqrtBits - 1), e, q) THEN RoundExp(q, e - 1)
    ELSE e

\* the float nearest to q: q rounded to SqrtBits significant bits, ties to even
fl(q) ==
    IF q.n = 0 THEN q
    ELSE LET e == RoundExp(q, 0)
             m == CHOOSE c \in Pow2(SqrtBits - 1)..(Pow2(SqrtBits) - 1) :
                      RLe(c, e, q) /\ ~RLe(c + 1, e, q)
             up == /\ RLe(2 * m + 1, e - 1, q)
                   /\ (Scaled(2 * m + 1, e - 1) # [q EXCEPT !.n = Abs(q.n)] \/ m % 2 = 1)
             r == IF up THEN Scaled(m + 1, e) ELSE Scaled(m, e)
         IN  IF q.n < 0 THEN [r EXCEPT !.n = -r.n] ELSE r

\* a / b of two floats: the quotient, rounded
truediv(a, b) == fl(QDiv(a, b))

\* math.isfinite
math_isfinite(a) == IsNum(a)

(* ------------------- terms and operators (collaborators) --------------- *)

\* a functional: cls, domain dimension shape[1] (None when domain-agnostic),
\* _diff_lipschitz, and the coefficient a of the sample functionals:
\* F(x) = (a/2) x^2 for a DiffFunc, a |x| (a weighted L1 norm) for a ProxFunc
Func(cls, dim, dl, a) == [cls |-> cls, dim |-> dim, dl |-> dl, a |-> a]

NoFunc == Func("None", None, None, I(0))

\* pyclo.NullFunc(): the zero functional
NullFunc == Func("NullFunc", None, I(0), I(0))

\* a linear operator: cls, shape (cod, dom), _lipschitz, and the factor a of
\* the sample operator x |-> a x
LinOp(cls, cod, dom, lip, a) ==
    [cls |-> cls, cod |-> cod, dom |-> dom, lip |-> lip, a |-> a]

NoOp == LinOp("None", None, None, None, I(0))

\* the attribute _K was never assigned
UnsetOp == LinOp("unset", None, None, None, I(0))

\* pyclo.NullOp(): the zero operator
NullOp == LinOp("NullOp", None, None, I(0), I(0))

\* pyclo.IdentityOp() (operator norm not yet computed)
IdentityOp == LinOp("IdentityOp", None, None, Inf, I(1))

isinstance_NullFunc(t) == t.cls = "NullFunc"

\* f.grad(x)
grad(f, x) == QMul(f.a, x)

QAbs(a) == [a EXCEPT !.n = Abs(a.n)]
QMax(a, b) == IF QLt(a, b) THEN b ELSE a
QMin(a, b) == IF QLt(a, b) THEN a ELSE b
QSign(a) == IF a.n > 0 THEN I(1) ELSE IF a.n < 0 THEN I(-1) ELSE I(0)

\* g.prox(x, tau) of a |x|: soft thresholding, sign(x) max(0, |x| - a tau);
\* the identity for the zero functional
prox(g, x, tau) == QMul(QSign(x), QMax(I(0), QSub(QAbs(x), QMul(g.a, tau))))

\* h.fenchel_prox(z, sigma) of a |z|: the projection of z onto [-a, a]
fenchel_prox(h, z, sigma) == QMax(QNeg(h.a), QMin(h.a, z))

\* K(x) and K.adjoint(z); the zero operator maps anything to 0
apply(K, x) == IF K.cls = "NullOp" THEN I(0) ELSE QMul(K.a, x)
adjoint(K, z) == IF K.cls = "NullOp" THEN I(0) ELSE QMul(K.a, z)

(* ----------------------------- construction ---------------------------- *)

Self(cls, f, g, h, K) == [cls |-> cls, f |-> f, g |-> g, h |-> h, K |-> K]

NoSolver == Self("none", NoFunc, NoFunc, NoFunc, UnsetOp)

Raised(e) == [exc |-> e, self |-> NoSolver]

\* init_K with a seeded fault: the shape of K is never compared with that of h
init_K_unchecked(h, K) ==
    IF h.cls # "None"
    THEN IF K.cls = "None"
         THEN [exc |-> "none", K |-> [IdentityOp EXCEPT !.lip = I(1)]]
         ELSE [exc |-> "none", K |-> K]
    ELSE IF K.cls = "None"
         THEN [exc |-> "none", K |-> NullOp]
         ELSE [exc |-> "none", K |-> UnsetOp]

\* the operator the constructor stores in self._K (ValueError on a mismatch)
init_K(h, K) ==
    IF h.cls # "None"
    THEN IF K.cls = "None"
         THEN [exc |-> "none", K |-> [IdentityOp EXCEPT !.lip = I(1)]]
         ELSE IF K.cod = h.dim \/ h.dim = None
              THEN [exc |-> "none", K |-> K]
              ELSE [exc |-> "ValueError", K |-> UnsetOp]
    ELSE IF K.cls = "None"
         THEN [exc |-> "none", K |-> NullOp]
         ELSE [exc |-> "none", K |-> UnsetOp]

\* None becomes pyclo.NullFunc()
or_NullFunc(t) == IF t.cls = "None" THEN NullFunc ELSE t

\* PDS_init with a seeded fault: the always-zero objective is not rejected
PDS_init_unchecked(f, g, h, K) ==
    LET k == init_K(h, K)
    IN  IF k.exc # "none" THEN Raised(k.exc)
        ELSE [exc |-> "none",
              self |-> Self("PDS", or_NullFunc(f), or_NullFunc(g), or_NullFunc(h), k.K)]

\* PrimalDualSplitting.__init__(f, g, h, K)
PDS_init(f, g, h, K) ==
    LET k == init_K(h, K)
        nf(t) == or_NullFunc(t)
    IN  IF k.exc # "none" THEN Raised(k.exc)
        ELSE IF f.cls = "None" /\ g.cls = "None" /\ h.cls = "None"
             THEN Raised("ValueError")
             ELSE [exc |-> "none", self |-> Self("PDS", nf(f), nf(g), nf(h), k.K)]

\* super(Class).__init__(f=..., g=..., ...) in the three subclasses: the
\* one-argument super object is unbound, its __init__ is super's own and
\* takes no keyword arguments
unbound_super_init(cls, f, g, h, K) == Raised("TypeError")

\* ChambollePockSplitting / DouglasRachfordSplitting / ForwardBackwardSplitting
CPS_init(g, h, K) == unbound_super_init("CPS", NoFunc, g, h, K)
DRS_init(g, h) == unbound_super_init("DRS", NoFunc, g, h, NoOp)
FBS_init(f, g) == unbound_super_init("FBS", f, g, NoFunc, NoOp)

(* ---------------------------- parameter policy ------------------------- *)

\* self._mstate: a dictionary; a key never written is Missing
NoState ==
    [x |-> Missing, x_prev |-> Missing, z |-> Missing, z_prev |-> Missing,
     beta |-> Missing, tau |-> Missing, sigma |-> Missing, rho |-> Missing]

\* the keyword arguments of m_init; None is an omitted argument
Args(x0, z0, tau, sigma, rho, beta) ==
    [x0 |-> x0, z0 |-> z0, tau |-> tau, sigma |-> sigma, rho |-> rho, beta |-> beta]

NoArgs == Args(None, None, None, None, None, None)

\* The array object a value of the dual variable lives in: "none" (no array),
\* "z0" (the caller's array), "copy" (a fresh copy of mst["x"]), "x" (the
\* very array mst["x"] holds), "new" (the result of m_step's arithmetic).
Dual(val, ref) == [val |-> val, ref |-> ref]

\* set_dual_variable with a seeded fault: the primal variable is returned itself, not a copy
set_dual_variable_shared(self, mst, z) ==
    IF isinstance_NullFunc(self.h) THEN Dual(None, "none")
    ELSE IF z = None THEN Dual(mst.x, "x") ELSE Dual(z, "z0")

\* set_dual_variable(z)
set_dual_variable(self, mst, z) ==
    IF isinstance_NullFunc(self.h) THEN Dual(None, "none")
    ELSE IF z = None THEN Dual(mst.x, "copy") ELSE Dual(z, "z0")

\* set_beta with a seeded fault: the override is returned without the positivity check
set_beta_unchecked(self, beta) ==
    IF beta = None
    THEN IF math_isfinite(self.f.dl)
         THEN [exc |-> "none", val |-> self.f.dl]
         ELSE [exc |-> "ValueError", val |-> None]
    ELSE [exc |-> "none", val |-> beta]

\* set_beta(beta)
set_beta(self, beta) ==
    IF beta = None
    THEN IF math_isfinite(self.f.dl)
         THEN [exc |-> "none", val |-> self.f.dl]
         ELSE [exc |-> "ValueError", val |-> None]
    ELSE IF QPos(beta)
         THEN [exc |-> "none", val |-> beta]
         ELSE [exc |-> "ValueError", val |-> None]

Steps(e, tau, sigma) == [exc |-> e, tau |-> tau, sigma |-> sigma]

\* balanced_step with a seeded fault: the sign of beta/4 is flipped
balanced_step_plus(beta, L) ==
    QMul(QDiv(I(1), QMul(L, L)),
         QAdd(QDiv(beta, I(4)),
              math_sqrt(QAdd(QDiv(QMul(beta, beta), I(16)), QMul(L, L)))))

\* tau = sigma = (1 / L^2) (-beta/4 + sqrt(beta^2/16 + L^2))
balanced_step(beta, L) ==
    QMul(QDiv(I(1), QMul(L, L)),
         QAdd(QDiv(QNeg(beta), I(4)),
              math_sqrt(QAdd(QDiv(QMul(beta, beta), I(16)), QMul(L, L)))))

\* default_step_sizes with a seeded fault: the operator norm is read before H is tested
default_step_sizes_norm_first(self, mst) ==
    IF self.K.cls = "unset" THEN Steps("AttributeError", None, None)
    ELSE IF ~math_isfinite(self.K.lip) THEN Steps("ValueError", None, None)
    ELSE IF isinstance_NullFunc(self.h)
    THEN Steps("none", IF QPos(mst.beta) THEN QDiv(I(2), mst.beta) ELSE I(1), I(0))
    ELSE IF QPos(mst.beta)
    THEN Steps("none", balanced_step(mst.beta, self.K.lip),
               balanced_step(mst.beta, self.K.lip))
    ELSE Steps("none", QDiv(I(1), self.K.lip), QDiv(I(1), self.K.lip))

\* default_step_sizes with a seeded fault: an infinite operator norm is used as it is
\* when beta = 0 (1 / inf = 0)
default_step_sizes_inf_norm(self, mst) ==
    IF QPos(mst.beta)
    THEN IF isinstance_NullFunc(self.h)
         THEN Steps("none", QDiv(I(2), mst.beta), I(0))
         ELSE IF math_isfinite(self.K.lip)
              THEN Steps("none", balanced_step(mst.beta, self.K.lip),
                         balanced_step(mst.beta, self.K.lip))
              ELSE Steps("ValueError", None, None)
    ELSE IF isinstance_NullFunc(self.h)
         THEN Steps("none", I(1), I(0))
         ELSE IF math_isfinite(self.K.lip)
              THEN Steps("none", QDiv(I(1), self.K.lip), QDiv(I(1), self.K.lip))
              ELSE Steps("none", I(0), I(0))

\* the default step sizes, neither tau nor sigma given
default_step_sizes(self, mst) ==
    IF QPos(mst.beta)
    THEN IF isinstance_NullFunc(self.h)
         THEN Steps("none", QDiv(I(2), mst.beta), I(0))
         ELSE IF self.K.cls = "unset" THEN Steps("AttributeError", None, None)
         ELSE IF math_isfinite(self.K.lip)
              THEN Steps("none", balanced_step(mst.beta, self.K.lip),
                         balanced_step(mst.beta, self.K.lip))
              ELSE Steps("ValueError", None, None)
    ELSE IF isinstance_NullFunc(self.h)
         THEN Steps("none", I(1), I(0))
         ELSE IF self.K.cls = "unset" THEN Steps("AttributeError", None, None)
         ELSE IF math_isfinite(self.K.lip)
              THEN Steps("none", QDiv(I(1), self.K.lip), QDiv(I(1), self.K.lip))
              ELSE Steps("ValueError", None, None)

\* set_step_sizes with a seeded fault: the branch of a lone sigma is missing, and the
\* defaults are taken whenever tau is omitted
set_step_sizes_lone_sigma(self, mst, tau, sigma) ==
    IF tau # None /\ sigma = None
    THEN IF QPos(tau) THEN Steps("none", tau, tau)
         ELSE Steps("ValueError", None, None)
    ELSE IF tau = None
    THEN default_step_sizes(self, mst)
    ELSE Steps("none", tau, sigma)

\* set_step_sizes(tau, sigma)
set_step_sizes(self, mst, tau, sigma) ==
    IF tau # None /\ sigma = None
    THEN IF QPos(tau) THEN Steps("none", tau, tau)
         ELSE Steps("ValueError", None, None)
    ELSE IF tau = None /\ sigma # None
    THEN IF QPos(sigma) THEN Steps("none", sigma, sigma)
         ELSE Steps("ValueError", None, None)
    ELSE IF tau = None /\ sigma = None
    THEN default_step_sizes(self, mst)
    ELSE Steps("none", tau, sigma)

\* set_momentum_term with a seeded fault: the two defaults are swapped
set_momentum_term_swapped(mst, rho) ==
    IF rho = None
    THEN IF QPos(mst.beta) THEN I(1) ELSE Q(9, 10)
    ELSE rho

\* set_momentum_term(rho)
set_momentum_term(mst, rho) ==
    IF rho = None
    THEN IF QPos(mst.beta) THEN Q(9, 10) ELSE I(1)
    ELSE rho

(* ------------------------------- m_init -------------------------------- *)

Outcome(mst, e) == [mst |-> mst, exc |-> e]

\* mst["x"] = mst["x_prev"] = x0; mst["z"] = mst["z_prev"] = set_dual_variable(z0)
set_iterates(self, mst, a) ==
    LET m1 == [mst EXCEPT !.x = a.x0, !.x_prev = a.x0]
        zv == set_dual_variable(self, m1, a.z0).val
    IN  [m1 EXCEPT !.z = zv, !.z_prev = zv]

\* the array mst["z"] holds after set_iterates
set_iterates_ref(self, mst, a) ==
    set_dual_variable(self, [mst EXCEPT !.x = a.x0, !.x_prev = a.x0], a.z0).ref

\* PDS_m_init with a seeded fault: a call that raises restores the state it found
PDS_m_init_rollback(self, mst, a) ==
    LET m2 == set_iterates(self, mst, a)
        b == set_beta(self, a.beta)
        m3 == [m2 EXCEPT !.beta = b.val]
        st == set_step_sizes(self, m3, a.tau, a.sigma)
        m4 == [m3 EXCEPT !.tau = st.tau, !.sigma = st.sigma]
        m5 == [m4 EXCEPT !.rho = set_momentum_term(m4, a.rho)]
    IN  IF b.exc # "none" THEN Outcome(mst, b.exc)
        ELSE IF st.exc # "none" THEN Outcome(mst, st.exc)
        ELSE Outcome(m5, "none")

\* PDS_m_init with a seeded fault: the step sizes and rho are resolved before beta is
\* stored, from the beta an earlier call left
PDS_m_init_stale_beta(self, mst, a) ==
    LET m2 == set_iterates(self, mst, a)
        b == set_beta(self, a.beta)
        st == set_step_sizes(self, m2, a.tau, a.sigma)
        m3 == [m2 EXCEPT !.tau = st.tau, !.sigma = st.sigma]
        m4 == [m3 EXCEPT !.rho = set_momentum_term(m3, a.rho)]
    IN  IF b.exc # "none" THEN Outcome(m2, b.exc)
        ELSE IF st.exc # "none" THEN Outcome([m2 EXCEPT !.beta = b.val], st.exc)
        ELSE Outcome([m4 EXCEPT !.beta = b.val], "none")

\* PrimalDualSplitting.m_init
PDS_m_init(self, mst, a) ==
    LET m2 == set_iterates(self, mst, a)
        b == set_beta(self, a.beta)
        m3 == [m2 EXCEPT !.beta = b.val]
        st == set_step_sizes(self, m3, a.tau, a.sigma)
        m4 == [m3 EXCEPT !.tau = st.tau, !.sigma = st.sigma]
        m5 == [m4 EXCEPT !.rho = set_momentum_term(m4, a.rho)]
    IN  IF b.exc # "none" THEN Outcome(m2, b.exc)
        ELSE IF st.exc # "none" THEN Outcome(m3, st.exc)
        ELSE Outcome(m5, "none")

\* CPS_m_init with a seeded fault: an omitted sigma or rho is filled in (sigma = tau, rho = 1)
CPS_m_init_filled(self, mst, a) ==
    LET m2 == set_iterates(self, mst, a)
        tau == IF a.tau = None THEN I(1) ELSE a.tau
    IN  IF a.beta # None THEN Outcome(mst, "TypeError")
        ELSE Outcome([m2 EXCEPT !.tau = tau,
                                !.sigma = IF a.sigma = None THEN tau ELSE a.sigma,
                                !.rho = IF a.rho = None THEN I(1) ELSE a.rho], "none")

\* DRS_m_init with a seeded fault: sigma is tau, not its reciprocal
DRS_m_init_sigma_tau(self, mst, a) ==
    LET m2 == set_iterates(self, mst, a)
        tau == IF a.tau = None THEN I(1) ELSE a.tau
        m3 == [m2 EXCEPT !.tau = tau]
    IN  IF a.sigma # None \/ a.rho # None \/ a.beta # None
        THEN Outcome(mst, "TypeError")
        ELSE Outcome([m3 EXCEPT !.sigma = tau, !.rho = I(1)], "none")

\* ChambollePockSplitting.m_init(x0, z0, tau=1.0, sigma=None, rho=None)
CPS_m_init(self, mst, a) ==
    LET m2 == set_iterates(self, mst, a)
    IN  IF a.beta # None THEN Outcome(mst, "TypeError")
        ELSE Outcome([m2 EXCEPT !.tau = IF a.tau = None THEN I(1) ELSE a.tau,
                                !.sigma = a.sigma, !.rho = a.rho], "none")

\* DouglasRachfordSplitting.m_init(x0, z0, tau=1.0)
DRS_m_init(self, mst, a) ==
    LET m2 == set_iterates(self, mst, a)
        tau == IF a.tau = None THEN I(1) ELSE a.tau
        m3 == [m2 EXCEPT !.tau = tau]
    IN  IF a.sigma # None \/ a.rho # None \/ a.beta # None
        THEN Outcome(mst, "TypeError")
        ELSE IF tau.n = 0 THEN Outcome(m3, "ZeroDivisionError")
        ELSE Outcome([m3 EXCEPT !.sigma = truediv(I(1), tau), !.rho = I(1)], "none")

\* ForwardBackwardSplitting.m_init(x0, z0, tau=None, rho=1.0, beta=None)
FBS_m_init(self, mst, a) ==
    LET m2 == set_iterates(self, mst, a)
        m3 == [m2 EXCEPT !.tau = a.tau]
        b == set_beta(self, a.beta)
    IN  IF a.sigma # None THEN Outcome(mst, "TypeError")
        ELSE IF b.exc # "none" THEN Outcome(m3, b.exc)
        ELSE Outcome([m3 EXCEPT !.beta = b.val,
                                !.rho = IF a.rho = None THEN I(1) ELSE a.rho], "none")

\* self.m_init(...), by the class of self
m_init(self, mst, a) ==
    CASE self.cls = "CPS" -> CPS_m_init(self, mst, a)
      [] self.cls = "DRS" -> DRS_m_init(self, mst, a)
      [] self.cls = "FBS" -> FBS_m_init(self, mst, a)
      [] OTHER -> PDS_m_init(self, mst, a)

(* ------------------------------- m_step -------------------------------- *)

\* x_temp = g.prox(x - tau * f.grad(x) - tau * K.adjoint(z), tau)
x_temp(self, mst) ==
    prox(self.g,
         QSub(QSub(mst.x, QMul(mst.tau, grad(self.f, mst.x))),
              QMul(mst.tau, adjoint(self.K, mst.z))),
         mst.tau)

\* z_temp = h.fenchel_prox(z + sigma * K(2 * x_temp - x), sigma)
z_temp(self, mst) ==
    LET u == QSub(QMul(I(2), x_temp(self, mst)), mst.x)
    IN  fenchel_prox(self.h, QAdd(mst.z, QMul(mst.sigma, apply(self.K, u))), mst.sigma)

\* blend with a seeded fault: the weights of the new and the old value are exchanged
blend_swapped(rho, new, old) == QAdd(QMul(rho, old), QMul(QSub(I(1), rho), new))

\* rho * new + (1 - rho) * old
blend(rho, new, old) == QAdd(QMul(rho, new), QMul(QSub(I(1), rho), old))

\* m_step_exc with a seeded fault: a key that was never written reads as a value
m_step_exc_no_keys(self, mst) ==
    IF self.K.cls = "unset" THEN "AttributeError" ELSE "none"

\* the exception m_step raises on this state, "none" when it runs through
m_step_exc(self, mst) ==
    LET dual == ~isinstance_NullFunc(self.h)
    IN  IF mst.x = Missing \/ mst.tau = Missing THEN "KeyError"
        ELSE IF mst.tau = None THEN "TypeError"
        ELSE IF self.K.cls = "unset" THEN "AttributeError"
        ELSE IF dual /\ (mst.sigma = Missing \/ mst.rho = Missing) THEN "KeyError"
        ELSE IF dual /\ (mst.sigma = None \/ mst.rho = None) THEN "TypeError"
        ELSE IF mst.rho = Missing THEN "KeyError"
        ELSE IF mst.rho = None THEN "TypeError"
        ELSE "none"

\* m_step with a seeded fault: the dual update is not skipped when h is the null functional
m_step_dual_unguarded(self, mst) ==
    LET e == m_step_exc(self, mst)
        xt == x_temp(self, mst)
        m1 == [mst EXCEPT !.z = blend(mst.rho, z_temp(self, mst), mst.z)]
    IN  IF e # "none" THEN Outcome(mst, e)
        ELSE Outcome([m1 EXCEPT !.x = blend(mst.rho, xt, mst.x)], "none")

\* m_step with a seeded fault: x is blended first and the dual update reads the new x
m_step_primal_first(self, mst) ==
    LET e == m_step_exc(self, mst)
        xt == x_temp(self, mst)
        m1 == [mst EXCEPT !.x = blend(mst.rho, xt, mst.x)]
        u == QSub(QMul(I(2), xt), m1.x)
        zt == fenchel_prox(self.h, QAdd(mst.z, QMul(mst.sigma, apply(self.K, u))),
                           mst.sigma)
    IN  IF e # "none" THEN Outcome(mst, e)
        ELSE IF isinstance_NullFunc(self.h) THEN Outcome(m1, "none")
        ELSE Outcome([m1 EXCEPT !.z = blend(mst.rho, zt, mst.z)], "none")

\* PrimalDualSplitting.m_step
m_step(self, mst) ==
    LET e == m_step_exc(self, mst)
        xt == x_temp(self, mst)
        m1 == IF isinstance_NullFunc(self.h) THEN mst
              ELSE [mst EXCEPT !.z = blend(mst.rho, z_temp(self, mst), mst.z)]
    IN  IF e # "none" THEN Outcome(mst, e)
        ELSE Outcome([m1 EXCEPT !.x = blend(mst.rho, xt, mst.x)], "none")

\* the array mst["z"] holds after m_step: a successful step with h present
\* binds mst["z"] to a new array, any other leaves the binding
m_step_ref(self, mst, ref) ==
    IF m_step_exc(self, mst) = "none" /\ ~isinstance_NullFunc(self.h)
    THEN "new" ELSE ref

(* --------------------------- stopping criterion ------------------------ *)

\* eps = 1e-4 of both relative-error criteria
eps == Q(1, 10000)

\* pycos.RelError(eps, var, f=None, norm=2, satisfy_all=True) on the iterate
\* state: |v - v_prev| / |v| < eps for the variable v = mst[var], and
\* satisfied when the variable is absent
RelError(e, var, mst) ==
    LET v == IF var = "x" THEN mst.x ELSE mst.z
        p == IF var = "x" THEN mst.x_prev ELSE mst.z_prev
    IN  IF v = None THEN TRUE
        ELSE QLt(QAbs(QSub(v, p)), QMul(e, QAbs(v)))

\* default_stop_crit with a seeded fault: the two criteria are joined by | , not by &
default_stop_crit_either(mst) ==
    RelError(eps, "x", mst) \/ RelError(eps, "z", mst)

\* PrimalDualSplitting.default_stop_crit: stop_crit_x & stop_crit_z
default_stop_crit(mst) ==
    RelError(eps, "x", mst) /\ RelError(eps, "z", mst)

(* ------------------------------- inputs -------------------------------- *)

\* f: none, F(x) = x^2 with beta = 2, and the same with an unbounded
\* (never computed) gradient Lipschitz constant
Fs == {NoFunc, Func("DiffFunc", I(1), I(2), I(2)), Func("DiffFunc", I(1), Inf, I(2))}

\* g: none, G(x) = |x|
Gs == {NoFunc, Func("ProxFunc", I(1), Inf, I(1))}

\* h: none, H(z) = |z| domain-agnostic and of dimension 1
Hs == {NoFunc, Func("ProxFunc", None, Inf, I(1)), Func("ProxFunc", I(1), Inf, I(1))}

\* K: none, x |-> 2x with its norm computed, and an operator into a space
\* of dimension 2 whose norm was never computed
Ks == {NoOp, LinOp("LinOp", I(1), I(1), I(2), I(2)),
       LinOp("LinOp", I(2), I(1), Inf, I(2))}

X0s == {I(5)}
Z0s == {None, I(1)}
Taus == {None, I(-1), Q(1, 2)}
Sigmas == {None, I(0), I(1)}
Rhos == {None, I(3)}
Betas == {None, I(0), I(3)}

\* the m_init calls: every (tau, sigma) with the other arguments omitted,
\* and every (z0, rho, beta) with the step sizes omitted
InitArgs ==
    {Args(x0, None, tau, sigma, None, None) :
        x0 \in X0s, tau \in Taus, sigma \in Sigmas}
    \cup {Args(x0, z0, None, None, rho, beta) :
        x0 \in X0s, z0 \in Z0s, rho \in Rhos, beta \in Betas}

(* ---------------------------- state machine ---------------------------- *)

Call(op, a) == [op |-> op, args |-> a]

Init ==
    /\ solver = NoSolver
    /\ ctor = NoSolver
    /\ mstate = NoState
    /\ call = Call("none", NoArgs)
    /\ exc = "none"
    /\ nsteps = 0
    /\ stop = "none"
    /\ zref = "none"
    /\ reinit = FALSE

\* the caller's statement  s = Class(...)
Constructed(cls, f, g, h, K, r) ==
    /\ call.op = "none"
    /\ ctor' = Self(cls, f, g, h, K)
    /\ solver' = r.self
    /\ exc' = r.exc
    /\ call' = Call("__init__", NoArgs)
    /\ UNCHANGED <<mstate, nsteps, stop, zref, reinit>>

NewPDS ==
    \E f \in Fs, g \in Gs, h \in Hs, K \in Ks :
        Constructed("PDS", f, g, h, K, PDS_init(f, g, h, K))

NewCPS ==
    \E g \in Gs, h \in Hs, K \in Ks :
        Constructed("CPS", NoFunc, g, h, K, CPS_init(g, h, K))

NewDRS ==
    \E g \in Gs, h \in Hs :
        Constructed("DRS", NoFunc, g, h, NoOp, DRS_init(g, h))

NewFBS ==
    \E f \in Fs, g \in Gs :
        Constructed("FBS", f, g, NoFunc, NoOp, FBS_init(f, g))

\* s.m_init(x0, z0, tau, sigma, rho, beta) on a constructed solver
Initialize ==
    /\ solver.cls # "none"
    /\ \E a \in InitArgs :
        LET r == m_init(solver, mstate, a)
        IN  /\ mstate' = r.mst
            /\ exc' = r.exc
            /\ call' = Call("m_init", a)
            /\ zref' = set_iterates_ref(solver, mstate, a)
    /\ nsteps' = 0
    /\ reinit' = (mstate # NoState)
    /\ UNCHANGED <<solver, ctor, stop>>

\* s.m_step() on a constructed solver
Step ==
    /\ solver.cls # "none"
    /\ nsteps < MaxSteps
    /\ LET r == m_step(solver, mstate)
       IN  /\ mstate' = r.mst
           /\ exc' = r.exc
    /\ zref' = m_step_ref(solver, mstate, zref)
    /\ reinit' = FALSE
    /\ call' = Call("m_step", NoArgs)
    /\ nsteps' = nsteps + 1
    /\ UNCHANGED <<solver, ctor, stop>>

Next == NewPDS \/ NewCPS \/ NewDRS \/ NewFBS \/ Initialize \/ Step

Spec == Init /\ [][Next]_vars

(* ------------- the subclasses' m_init on a subclass instance ----------- *)

\* An instance of a subclass whose attributes were set by the base
\* initializer called explicitly, s = Class.__new__(Class) followed by
\* PrimalDualSplitting.__init__(s, f, g, h, K) with the terms the subclass
\* constructor names: the one way to hold an instance while Class(...) raises.
VariantSelf(cls, f, g, h, K) == [PDS_init(f, g, h, K).self EXCEPT !.cls = cls]

Variants ==
    {Self("CPS", NoFunc, g, h, K) : g \in Gs, h \in Hs, K \in Ks}
    \cup {Self("DRS", NoFunc, g, h, NoOp) : g \in Gs, h \in Hs}
    \cup {Self("FBS", f, g, NoFunc, NoOp) : f \in Fs, g \in Gs}

VariantTaus == {None, I(3), Q(1, 2)}
VariantSigmas == {None, I(1)}
VariantRhos == {None, I(3)}
VariantBetas == {None, I(3)}

\* the m_init calls on a subclass instance: every (z0, tau), and every
\* (sigma, rho, beta) with tau omitted
VariantArgs ==
    {Args(x0, z0, tau, None, None, None) :
        x0 \in X0s, z0 \in Z0s, tau \in VariantTaus}
    \cup {Args(x0, None, None, sigma, rho, beta) :
        x0 \in X0s, sigma \in VariantSigmas, rho \in VariantRhos,
        beta \in VariantBetas}

VariantInit ==
    /\ \E c \in Variants :
           /\ PDS_init(c.f, c.g, c.h, c.K).exc = "none"
           /\ ctor = c
           /\ solver = VariantSelf(c.cls, c.f, c.g, c.h, c.K)
    /\ mstate = NoState
    /\ call = Call("__init__", NoArgs)
    /\ exc = "none"
    /\ nsteps = 0
    /\ stop = "none"
    /\ zref = "none"
    /\ reinit = FALSE

\* s.m_init(...) on a subclass instance; a call rejected when its arguments
\* are bound (TypeError) writes no iterate and starts no new run of steps
VariantInitialize ==
    /\ \E a \in VariantArgs :
        LET r == m_init(solver, mstate, a)
        IN  /\ mstate' = r.mst
            /\ exc' = r.exc
            /\ call' = Call("m_init", a)
            /\ nsteps' = IF r.exc = "TypeError" THEN nsteps ELSE 0
            /\ zref' = IF r.exc = "TypeError" THEN zref
                       ELSE set_iterates_ref(solver, mstate, a)
    /\ reinit' = (mstate # NoState)
    /\ UNCHANGED <<solver, ctor, stop>>

VariantNext == VariantInitialize \/ Step

VariantSpec == VariantInit /\ [][VariantNext]_vars

(* ------------- the stopping criterion on a pair of iterates ----------- *)

\* current and previous values around the threshold: 1/10001 < eps,
\* 1/10000 = eps, and a change of 100 %
StopXs == {I(5000), I(10000), I(10001)}
StopZs == {I(5000), I(10000), I(10001)}

StopStates ==
    {[NoState EXCEPT !.x = x, !.x_prev = xp, !.z = z, !.z_prev = zp] :
        x \in StopXs, xp \in StopXs, z \in StopZs, zp \in StopZs}
    \cup {[NoState EXCEPT !.x = x, !.x_prev = xp, !.z = None, !.z_prev = None] :
        x \in StopXs, xp \in StopXs}

StopInit ==
    /\ solver = NoSolver
    /\ ctor = NoSolver
    /\ mstate \in StopStates
    /\ call = Call("none", NoArgs)
    /\ exc = "none"
    /\ nsteps = 0
    /\ stop = "none"
    /\ zref = "none"
    /\ reinit = FALSE

\* the loop driver evaluates the default stopping criterion on the state
Evaluate ==
    /\ stop = "none"
    /\ stop' = IF default_stop_crit(mstate) THEN "stop" ELSE "continue"
    /\ call' = Call("default_stop_crit", NoArgs)
    /\ UNCHANGED <<solver, ctor, mstate, exc, nsteps, zref, reinit>>

StopNext == Evaluate

StopSpec == StopInit /\ [][StopNext]_vars

(* ------------------------- vocabulary of the claims -------------------- *)

Given(v) == v # None
NonPositive(v) == Given(v) /\ ~QPos(v)

\* the state right after the constructor call, and after an m_init call
BasePDS == ctor.cls = "PDS"
AllNull == ctor.f.cls = "None" /\ ctor.g.cls = "None" /\ ctor.h.cls = "None"
AfterInit == call.op = "m_init" /\ solver.cls = "PDS"
InitOk == AfterInit /\ exc = "none"
HNull == isinstance_NullFunc(solver.h)

\* beta resolution of the last m_init call went through
BetaResolves ==
    IF Given(call.args.beta) THEN QPos(call.args.beta)
    ELSE math_isfinite(solver.f.dl)

NoStepArgs == ~Given(call.args.tau) /\ ~Given(call.args.sigma)
OneStepArg == Given(call.args.tau) # Given(call.args.sigma)
TheStepArg == IF Given(call.args.tau) THEN call.args.tau ELSE call.args.sigma

(* ------------------------------- claims -------------------------------- *)

\* C1: constructing the base solver with f, g and h all absent raises the
\* configuration error (ValueError), whatever K is, and leaves no instance.
C1_AllNullRejected ==
    (BasePDS /\ AllNull) =>
        (exc = "ValueError" /\ solver = NoSolver /\ call.op = "__init__"
         /\ mstate = NoState)

C1_Witness ==
    BasePDS /\ AllNull /\ ctor.K.cls = "LinOp" /\ exc = "ValueError"

\* C2 as stated: with h and K both given, K is rejected whenever its
\* codomain dimension differs from h's domain dimension, and kept otherwise.
C2_RejectedIffDimsDiffer ==
    (BasePDS /\ ctor.h.cls # "None" /\ ctor.K.cls # "None") =>
        IF ctor.K.cod # ctor.h.dim
        THEN exc = "ValueError" /\ solver = NoSolver
        ELSE solver.cls = "PDS" /\ solver.K = ctor.K

\* C2 amended: K is rejected when h has a fixed domain dimension that differs
\* from K's codomain dimension; K is kept when the dimensions agree or h is
\* domain-agnostic (dimension None).
C2_RejectedIffFixedDimDiffers ==
    (BasePDS /\ ctor.h.cls # "None" /\ ctor.K.cls # "None") =>
        IF ctor.h.dim # None /\ ctor.K.cod # ctor.h.dim
        THEN exc = "ValueError" /\ solver = NoSolver
        ELSE solver.cls = "PDS" /\ solver.K = ctor.K

C2_Witness ==
    /\ BasePDS /\ ctor.h.dim = I(1) /\ ctor.K.cod = I(2)
    /\ exc = "ValueError" /\ solver = NoSolver

\* C3 as stated: with h absent and a K supplied, construction succeeds, the
\* solver holds the null operator, and m_step after a successful m_init runs
\* the primal update without raising.
C3_KIgnoredWhenHAbsent ==
    (BasePDS /\ ~AllNull /\ ctor.h.cls = "None" /\ ctor.K.cls # "None") =>
        /\ solver.cls = "PDS"
        /\ solver.K = NullOp
        /\ (call.op = "m_step" /\ mstate.rho # Missing) => exc = "none"

\* C4 as stated: after a successful m_init tau > 0, and sigma > 0 when H is
\* present; a non-positive tau or sigma given by the caller is rejected.
C4_StepSizesPositive ==
    /\ InitOk => (QPos(mstate.tau) /\ (~HNull => QPos(mstate.sigma)))
    /\ (AfterInit /\ (NonPositive(call.args.tau) \/ NonPositive(call.args.sigma)))
           => exc = "ValueError"

\* C5: beta resolution: an override > 0 is stored, an override <= 0 raises
\* ValueError; with no override beta is f's gradient Lipschitz bound when it
\* is finite (0 for a null f) and ValueError is raised when it is infinite.
C5_BetaResolution ==
    AfterInit =>
        IF Given(call.args.beta)
        THEN IF QPos(call.args.beta) THEN mstate.beta = call.args.beta
             ELSE exc = "ValueError"
        ELSE IF math_isfinite(solver.f.dl)
             THEN /\ mstate.beta = solver.f.dl
                  /\ ctor.f.cls = "None" => mstate.beta = I(0)
             ELSE exc = "ValueError"

C5_Witness ==
    /\ AfterInit /\ ~Given(call.args.beta)
    /\ solver.f.dl = Inf /\ exc = "ValueError" /\ mstate.beta = Missing

\* C6: with exactly one of tau, sigma given, a value > 0 is stored as both
\* tau and sigma, whatever beta, H and the operator norm are, and a value
\* <= 0 raises ValueError.
C6_OneStepSizeGiven ==
    (AfterInit /\ OneStepArg) =>
        IF QPos(TheStepArg)
        THEN BetaResolves =>
                 /\ exc = "none"
                 /\ mstate.tau = TheStepArg
                 /\ mstate.sigma = TheStepArg
        ELSE exc = "ValueError"

C6_Witness ==
    /\ AfterInit /\ ~Given(call.args.tau) /\ call.args.sigma = I(1)
    /\ ~HNull /\ solver.K.lip = Inf /\ mstate.beta = I(2)
    /\ exc = "none" /\ mstate.tau = I(1) /\ mstate.sigma = I(1)

\* C7: with neither tau nor sigma given and H null, tau = 2/beta and sigma = 0
\* when beta > 0, tau = 1 and sigma = 0 when beta = 0, and the operator K is
\* not read (the call succeeds even when self._K was never assigned).
C7_DefaultStepSizesHNull ==
    (AfterInit /\ NoStepArgs /\ HNull /\ BetaResolves) =>
        /\ exc = "none"
        /\ mstate.sigma = I(0)
        /\ mstate.tau = IF QPos(mstate.beta) THEN QDiv(I(2), mstate.beta) ELSE I(1)

C7_Witness ==
    /\ AfterInit /\ NoStepArgs /\ HNull /\ solver.K.cls = "unset"
    /\ exc = "none" /\ mstate.beta = I(3) /\ mstate.tau = Q(2, 3)
    /\ mstate.sigma = I(0)

\* the case of C8: default step sizes with H present and a finite norm of K
BalancedCase == InitOk /\ NoStepArgs /\ ~HNull /\ math_isfinite(solver.K.lip)

\* L^2, tau sigma L^2 and 1/tau - sigma L^2 in the current state
NormSq == QMul(solver.K.lip, solver.K.lip)
Product == QMul(QMul(mstate.tau, mstate.sigma), NormSq)
Margin == QSub(QDiv(I(1), mstate.tau), QMul(mstate.sigma, NormSq))

UnitRoundoff == Q(1, Pow2(SqrtBits))
Tolerance == QMul(I(3), UnitRoundoff)

C9_InfiniteNormRejected ==
    [][(call'.op = "m_init" /\ ~isinstance_NullFunc(solver'.h)
        /\ ~Given(call'.args.tau) /\ ~Given(call'.args.sigma)
        /\ ~math_isfinite(solver'.K.lip))
       => (exc' = "ValueError" /\ mstate'.tau = mstate.tau
           /\ mstate'.sigma = mstate.sigma)]_vars

C9_Witness ==
    /\ AfterInit /\ NoStepArgs /\ ~HNull /\ solver.K.lip = Inf
    /\ mstate.beta = I(0) /\ exc = "ValueError"
    /\ mstate.tau = Missing /\ mstate.sigma = Missing

\* C10: after a successful m_init rho is the override when one is given,
\* whatever its value, else 0.9 when beta > 0 and 1 when beta = 0.
C10_Momentum ==
    InitOk =>
        mstate.rho = IF Given(call.args.rho) THEN call.args.rho
                     ELSE IF QPos(mstate.beta) THEN Q(9, 10) ELSE I(1)

\* an override outside ]0, 2[ is stored as it is
C10_Witness ==
    InitOk /\ call.args.rho = I(3) /\ mstate.rho = I(3) /\ QPos(mstate.beta)

\* some m_init call has written the iterates / has run to its end (rho is
\* the last key m_init writes)
IteratesSet == mstate.x # Missing
Initialized == mstate.rho # Missing
GNull == isinstance_NullFunc(solver.g)

\* C11: on a solver with H null, once m_init has been called (with or
\* without z0) z and z_prev are None in every state, after any number of
\* m_step calls.
C11_NoDualStateWhenHNull ==
    (solver.cls = "PDS" /\ HNull /\ IteratesSet) =>
        (mstate.z = None /\ mstate.z_prev = None)

C11_Witness ==
    /\ solver.cls = "PDS" /\ HNull /\ call.op = "m_step" /\ exc = "none"
    /\ nsteps = 2 /\ mstate.x # I(5)
    /\ mstate.z = None /\ mstate.z_prev = None

\* C12: with G and H null and no operator, one m_step from any x of an
\* initialized solver gives x' = rho (x - tau grad F(x)) + (1 - rho) x; for
\* F(x) = x^2 (beta = 2) and no override m_init resolves tau = 1 and
\* rho = 0.9, and one step from x0 = 5 yields x = -4.
C12_GradientStep ==
    /\ [][(call'.op = "m_step" /\ solver.cls = "PDS" /\ GNull /\ HNull
           /\ solver.K = NullOp /\ Initialized)
          => /\ exc' = "none"
             /\ mstate'.x =
                    QAdd(QMul(mstate.rho,
                              QSub(mstate.x,
                                   QMul(mstate.tau, QMul(solver.f.a, mstate.x)))),
                         QMul(QSub(I(1), mstate.rho), mstate.x))
             /\ (mstate.x = I(5) /\ mstate.tau = I(1) /\ mstate.rho = Q(9, 10)
                 /\ solver.f.a = I(2)) => mstate'.x = I(-4)]_vars
    /\ [](InitOk /\ GNull /\ HNull /\ solver.f.dl = I(2) /\ call.args.x0 = I(5)
           /\ call.args = [NoArgs EXCEPT !.x0 = I(5)]
          => (mstate.tau = I(1) /\ mstate.rho = Q(9, 10) /\ mstate.x = I(5)))

C12_Witness ==
    /\ solver.cls = "PDS" /\ GNull /\ HNull /\ solver.K = NullOp
    /\ solver.f.dl = I(2) /\ call.op = "m_step" /\ exc = "none" /\ nsteps = 1
    /\ mstate.beta = I(2) /\ mstate.tau = I(1) /\ mstate.rho = Q(9, 10)
    /\ mstate.x = I(-4)

\* C13: m_step before the first m_init that ran to its end is rejected and
\* leaves the state as it was, and only a successful m_init leaves the
\* uninitialized state.
C13_StepNeedsInit ==
    [][~Initialized =>
          /\ (call'.op = "m_step" => (exc' # "none" /\ mstate' = mstate))
          /\ (mstate'.rho # Missing => (call'.op = "m_init" /\ exc' = "none"))]_vars

\* m_step after an m_init that failed half way
C13_Witness ==
    /\ solver.cls = "PDS" /\ call.op = "m_step" /\ exc = "KeyError"
    /\ mstate.x = I(5) /\ mstate.tau = Missing /\ mstate.rho = Missing

\* the state right after a call of a subclass constructor
VariantCtor == ctor.cls \in {"CPS", "DRS", "FBS"} /\ call.op = "__init__"

\* the base constructor accepts the terms the subclass constructor names
ValidTerms == PDS_init(ctor.f, ctor.g, ctor.h, ctor.K).exc = "none"

\* C14 as stated: a subclass constructor called with valid terms succeeds and
\* yields the base solver built from the same terms with the designated ones
\* None: CPS(g, h, K) = base(None, g, h, K), DRS(g, h) = base(None, g, h, None),
\* FBS(f, g) = base(f, g, None, None).
C14_VariantsAreBaseSolvers ==
    (VariantCtor /\ ValidTerms) =>
        /\ exc = "none"
        /\ solver = VariantSelf(ctor.cls, ctor.f, ctor.g, ctor.h, ctor.K)

\* the state after an m_init call on an instance of the subclass cls
AfterVariantInit(cls) == solver.cls = cls /\ call.op = "m_init"

\* C15 as stated: ForwardBackwardSplitting.m_init with tau omitted resolves
\* beta as the base solver does, tau = 2/beta when beta > 0 and tau = 1 when
\* beta = 0, and rho = 1 unless the caller gives it.
C15_ForwardBackwardInit ==
    (AfterVariantInit("FBS") /\ exc = "none" /\ ~Given(call.args.tau)) =>
        /\ mstate.beta = set_beta(solver, call.args.beta).val
        /\ mstate.tau = IF QPos(mstate.beta) THEN QDiv(I(2), mstate.beta) ELSE I(1)
        /\ mstate.rho = IF Given(call.args.rho) THEN call.args.rho ELSE I(1)

DRSArgs == ~Given(call.args.sigma) /\ ~Given(call.args.rho) /\ ~Given(call.args.beta)

XBelow == QLt(QMul(I(10000), QAbs(QSub(mstate.x, mstate.x_prev))), QAbs(mstate.x))
ZBelow == QLt(QMul(I(10000), QAbs(QSub(mstate.z, mstate.z_prev))), QAbs(mstate.z))

\* C18: the default stopping criterion reports convergence exactly when the
\* relative change of x is below 1e-4 and that of z is too, the latter
\* counting as satisfied when z is None; it never reports convergence while
\* the criterion on x is unsatisfied.
C18_StopIsConjunction ==
    stop # "none" =>
        /\ (stop = "stop") <=> (XBelow /\ (mstate.z = None \/ ZBelow))
        /\ ~XBelow => stop = "continue"

C18_Witness ==
    /\ stop = "stop" /\ mstate.z = None
    /\ mstate.x = I(10001) /\ mstate.x_prev = I(10000)

\* C19: in one m_step with H present, x_temp is computed from the x and z of
\* before the step, the dual update is z' = rho z_temp + (1 - rho) z with
\* z_temp = h.fenchel_prox(z + sigma K(2 x_temp - x), sigma) over the x of
\* before the step, and x' = rho x_temp + (1 - rho) x: z' does not read x'
\* and x' does not read z'.
C19_UpdateOrder ==
    [][(call'.op = "m_step" /\ exc' = "none" /\ solver.cls = "PDS"
        /\ ~isinstance_NullFunc(solver.h))
       => LET x == mstate.x
              z == mstate.z
              xt == prox(solver.g,
                         QSub(QSub(x, QMul(mstate.tau, grad(solver.f, x))),
                              QMul(mstate.tau, adjoint(solver.K, z))),
                         mstate.tau)
              u == QSub(QMul(I(2), xt), x)
              zt == fenchel_prox(solver.h,
                                 QAdd(z, QMul(mstate.sigma, apply(solver.K, u))),
                                 mstate.sigma)
          IN  /\ mstate'.z = QAdd(QMul(mstate.rho, zt),
                                  QMul(QSub(I(1), mstate.rho), z))
              /\ mstate'.x = QAdd(QMul(mstate.rho, xt),
                                  QMul(QSub(I(1), mstate.rho), x))]_vars

\* a step that changed both x and z
C19_Witness ==
    /\ solver.cls = "PDS" /\ ~HNull /\ call.op = "m_step" /\ exc = "none"
    /\ nsteps = 1 /\ mstate.x # I(5) /\ mstate.z # mstate.z_prev
    /\ mstate.rho = Q(9, 10)

\* C20 as stated: after every m_step x_prev is the x of before that step, and
\* z_prev the z of before it when H is present; after m_init alone
\* x = x_prev = x0.
C20_PrevTracksLastIterate ==
    /\ [][(call'.op = "m_step" /\ exc' = "none" /\ solver.cls = "PDS")
          => /\ mstate'.x_prev = mstate.x
             /\ ~isinstance_NullFunc(solver.h) => mstate'.z_prev = mstate.z]_vars
    /\ [](AfterInit => (mstate.x = call.args.x0 /\ mstate.x_prev = call.args.x0))

\* C21: m_init sets z = z_prev = None when H is null, even when z0 is
\* given; with H present z = z_prev = z0 when z0 is given, and otherwise the
\* x0 of this same call, held in a fresh copy and not in the array of x.
C21_DualInit ==
    AfterInit =>
        IF HNull
        THEN mstate.z = None /\ mstate.z_prev = None /\ zref = "none"
        ELSE IF Given(call.args.z0)
        THEN mstate.z = call.args.z0 /\ mstate.z_prev = call.args.z0 /\ zref = "z0"
        ELSE /\ mstate.z = call.args.x0 /\ mstate.z_prev = call.args.x0
             /\ mstate.x = call.args.x0 /\ zref = "copy"

\* H present and z0 omitted
C21_Witness ==
    /\ AfterInit /\ ~HNull /\ ~Given(call.args.z0) /\ exc = "none"
    /\ mstate.z = I(5) /\ mstate.z_prev = I(5) /\ zref = "copy"

\* a successful m_init call that passed no hyperparameter
DefaultInit ==
    /\ call.op = "m_init" /\ exc = "none"
    /\ ~Given(call.args.tau) /\ ~Given(call.args.sigma)
    /\ ~Given(call.args.rho) /\ ~Given(call.args.beta)

\* every field m_step reads holds a number
StepFieldsDefined ==
    /\ IsNum(mstate.x) /\ IsNum(mstate.tau) /\ IsNum(mstate.rho)
    /\ ~HNull => (IsNum(mstate.z) /\ IsNum(mstate.sigma))

\* C22 as stated: after a successful m_init with the hyperparameters omitted
\* x, tau and rho, and z and sigma when H is present, hold numbers, and the
\* first m_step does not fail on a missing or None parameter.
C22_DefaultsAreUsable ==
    /\ [](DefaultInit => StepFieldsDefined)
    /\ [][(DefaultInit /\ call'.op = "m_step")
          => exc' \notin {"KeyError", "TypeError"}]_vars

\* C23: a successful m_init of the base solver supersedes the whole iterate
\* state: x, x_prev, z, z_prev, beta, tau, sigma and rho are what the same
\* call gives on a fresh solver, whatever m_init and m_step calls came before.
C23_InitSupersedes ==
    InitOk => mstate = PDS_m_init(solver, NoState, call.args).mst

\* a re-initialization with every hyperparameter omitted
C23_Witness ==
    /\ InitOk /\ reinit /\ DefaultInit /\ ~HNull
    /\ mstate.x = I(5) /\ mstate.z = I(5) /\ mstate.beta = I(2)
    /\ mstate.rho = Q(9, 10) /\ IsNum(mstate.tau)

\* beta resolution fails on these arguments
BetaFails(self, a) ==
    IF Given(a.beta) THEN ~QPos(a.beta) ELSE ~math_isfinite(self.f.dl)

\* C24: an m_init of the base solver that raises is not rolled back: x,
\* x_prev, z and z_prev hold the new values; beta keeps its old value when
\* beta resolution raised and holds the new one when step-size resolution
\* raised; tau, sigma and rho keep what they held before the call.
C24_FailedInitNotRolledBack ==
    [][(call'.op = "m_init" /\ solver.cls = "PDS" /\ exc' # "none")
       => LET a == call'.args
              zv == IF isinstance_NullFunc(solver.h) THEN None
                    ELSE IF Given(a.z0) THEN a.z0 ELSE a.x0
          IN  /\ exc' = "ValueError"
              /\ mstate'.x = a.x0 /\ mstate'.x_prev = a.x0
              /\ mstate'.z = zv /\ mstate'.z_prev = zv
              /\ mstate'.beta = IF BetaFails(solver, a) THEN mstate.beta
                                ELSE IF Given(a.beta) THEN a.beta ELSE solver.f.dl
              /\ mstate'.tau = mstate.tau /\ mstate'.sigma = mstate.sigma
              /\ mstate'.rho = mstate.rho]_vars

\* step-size resolution raised on a solver an earlier call had initialized
\* with tau = 1/2: the new x and beta stand next to the old tau, sigma, rho
C24_Witness ==
    /\ AfterInit /\ reinit /\ exc = "ValueError"
    /\ NoStepArgs /\ ~Given(call.args.beta) /\ ~HNull /\ solver.K.lip = Inf
    /\ mstate.x = I(5) /\ mstate.beta = solver.f.dl
    /\ mstate.tau = Q(1, 2) /\ mstate.sigma = Q(1, 2) /\ IsNum(mstate.rho)
====
